---- MODULE Spec2Model ----
(***************************************************************************)
(* Model of pyear's segment orchestrator                                   *)
(* (pyear/pyblinkers/segment_blink_properties.py,                          *)
(* compute_segment_blink_properties) and of the flank line-intersection    *)
(* routine (pyear/matlab_fork/line_intersection_matlab.py,                 *)
(* lines_intersection_matlabx).                                            *)
(*                                                                         *)
(* Table cells.  A cell of a pandas column is a tuple:                     *)
(*   << >>      NaN (a missing value; the column is float)                 *)
(*   <<v>>      the integer v in an integer column                         *)
(*   <<n, d>>   the float n/d (d > 0)                                      *)
(* A table is a sequence of rows, a row a record of cells.                 *)
(***************************************************************************)
EXTENDS Integers, Sequences, FiniteSets, TLC

\* ---------------------------------------------------------------- bounds
MaxSegs == 2
MaxRows == 2

\* ----------------------------------------------------------- table cells
NaN == << >>

I(v) == <<v>>

F(n, d) == <<n, d>>

IsNaN(c) == Len(c) = 0

AsInt_Ceil(c) ==
    IF Len(c) = 1 THEN c
    ELSE IF c[1] % c[2] = 0 THEN <<c[1] \div c[2]>> ELSE <<(c[1] \div c[2]) + 1>>

\* Series.astype(int) on one cell: an integer stays, a float is truncated
\* toward zero.  (NaN raises in the caller: see CoerceFails.)
AsInt(c) ==
    IF Len(c) = 1 THEN c
    ELSE IF c[1] >= 0 THEN <<c[1] \div c[2]>> ELSE <<-((-c[1]) \div c[2])>>

\* Series.fillna(v) on one cell.
FillNa(c, v) == IF IsNaN(c) THEN <<v>> ELSE c

\* numeric order of two non-NaN cells
Num(c) == IF Len(c) = 1 THEN <<c[1], 1>> ELSE c

CellLeq(a, b) == Num(a)[1] * Num(b)[2] <= Num(b)[1] * Num(a)[2]

\* ------------------------------------------------------------ the inputs
\* The sampling rates recorded in the segments (the spec's scenario: 250 Hz).
SampleRates == {250}

\* What a segment's channel data does to the collaborators that consume it:
\*   good     fit and property computation succeed
\*   nan      all-NaN samples: with run_fit the fitter drops every blink
\*   badfit   FitBlinks.dprocess_segment_raw raises
\*   badprop  BlinkProperties(...) raises
SignalKinds == {"good", "nan", "badfit", "badprop"}

\* A segment (an mne Raw): the channels it carries, info["sfreq"], its data.
SegmentPool ==
    [ch_names : {{"EEG-E8"}}, sfreq : SampleRates, signal : SignalKinds]
    \cup [ch_names : {{}}, sfreq : SampleRates, signal : {"good"}]

channel == "EEG-E8"

\* Index-column profiles of a candidate row.
WellFormed ==
    [start_blink |-> I(2), end_blink |-> I(3), outer_start |-> I(0),
     outer_end |-> I(5), left_zero |-> I(1), right_zero |-> I(4)]

MissingRightZero == [WellFormed EXCEPT !.right_zero = NaN]

MissingStart == [WellFormed EXCEPT !.start_blink = NaN]

\* the zero crossings in the wrong order, start_blink <= end_blink
InvertedZeros == [WellFormed EXCEPT !.left_zero = I(4), !.right_zero = I(1)]

\* float indices that are not whole numbers
Fractional == [WellFormed EXCEPT !.left_zero = F(3, 2), !.right_zero = F(9, 2)]

\* <<profile, seg_id>> of the candidate rows a table is drawn from
CandidatePool ==
    ({WellFormed, MissingRightZero, MissingStart} \X {0, 1})
    \cup {<<InvertedZeros, 0>>, <<Fractional, 0>>, <<WellFormed, -1>>}

\* the candidate rows of the repeated-call scenarios
CandidatePoolTwo == {WellFormed, MissingStart} \X {0, 1}

RowOf(p, s, b) ==
    [seg_id |-> s, blink_id |-> b,
     start_blink |-> p.start_blink, end_blink |-> p.end_blink,
     outer_start |-> p.outer_start, outer_end |-> p.outer_end,
     left_zero |-> p.left_zero, right_zero |-> p.right_zero]

\* the same row in a table that has no right_zero column
DropRightZero(r) == [f \in DOMAIN r \ {"right_zero"} |-> r[f]]

SeqsUpTo(S, n) == UNION {[1..k -> S] : k \in 0..n}

\* every candidate table of at most MaxRows rows drawn from pool; blink_id
\* is the row's position, so rows are told apart
BlinkTables(pool) ==
    { [i \in DOMAIN ps |-> RowOf(ps[i][1], ps[i][2], i)] :
        ps \in SeqsUpTo(pool, MaxRows) }

Params == [base_fraction |-> "0.5", shut_amp_fraction |-> "0.9"]

VARIABLES
    segments,   \* argument: sequence of segments
    blink_df,   \* argument: the caller's candidate table
    run_fit,    \* argument
    params,     \* argument
    pc,         \* "start", "loop", "returned", "raised"
    seg_id,     \* loop variable of enumerate(segments)
    sfreq,      \* local
    all_props,  \* local: list of per-segment property tables
    result,     \* the returned table
    exc,        \* the exception that left the call ("none" if none)
    log,        \* logger / warnings output, in order
    calls,      \* collaborator calls made, in order: <<name, seg_id>>
    visited,    \* number of loop iterations entered in this call
    df0,        \* the caller's table as it was when the call started
    call_no,    \* 1 for the first call, 2 for the repeated one
    prev,       \* outcome of the first call
    changed,    \* position of the segment replaced before call 2, or -1
    sent,       \* the rows tables handed to FitBlinks(df=rows), in order
    lpc,        \* lines_intersection_matlabx: "ready" or "returned"
    signal,     \* its argument: the samples of one segment
    xLeft,      \* its argument: sample indices of the left flank window
    xRight,     \* its argument: sample indices of the right flank window
    out         \* the tuple it returned

ovars == <<segments, blink_df, run_fit, params, pc, seg_id, sfreq, all_props,
           result, exc, log, calls, visited, df0, call_no, prev, changed,
           sent>>

lvars == <<lpc, signal, xLeft, xRight, out>>

vars == <<ovars, lvars>>

NoOut == [xIntersect |-> NaN]

\* lines_intersection_matlabx is not running
LinesIdle ==
    /\ lpc = "returned"
    /\ signal = << >>
    /\ xLeft = << >>
    /\ xRight = << >>
    /\ out = NoOut

NoPrev == [pc |-> "none", result |-> << >>, exc |-> "none", log |-> << >>]

InitCall ==
    /\ pc = "start"
    /\ seg_id = 0
    /\ sfreq = 0
    /\ all_props = << >>
    /\ result = << >>
    /\ exc = "none"
    /\ log = << >>
    /\ calls = << >>
    /\ sent = << >>
    /\ visited = 0
    /\ call_no = 1
    /\ prev = NoPrev
    /\ changed = -1

Init ==
    /\ segments \in SeqsUpTo(SegmentPool, MaxSegs)
    /\ \E t \in BlinkTables(CandidatePool), has_rz \in BOOLEAN :
          blink_df = IF has_rz THEN t
                     ELSE [i \in DOMAIN t |-> DropRightZero(t[i])]
    /\ run_fit \in BOOLEAN
    /\ params = Params
    /\ df0 = blink_df
    /\ InitCall
    /\ LinesIdle

\* ------------------------------------------------- steps of one iteration
IndexColumns ==
    <<"start_blink", "end_blink", "outer_start", "outer_end", "left_zero">>

SelectRows_UpTo(df, s) == SelectSeq(df, LAMBDA r : r.seg_id <= s)

\* blink_df[blink_df["seg_id"] == seg_id].copy()
SelectRows(df, s) == SelectSeq(df, LAMBDA r : r.seg_id = s)

\* .astype(int) raises on a column that holds a NaN
CoerceFails(rows) ==
    \E i \in DOMAIN rows, k \in DOMAIN IndexColumns :
        IsNaN(rows[i][IndexColumns[k]])

CoerceRow_AllSentinel(r) ==
    [f \in DOMAIN r |->
        IF f \in {"start_blink", "end_blink", "outer_start", "outer_end",
                  "left_zero"}
        THEN AsInt(r[f])
        ELSE IF f = "right_zero" THEN <<-1>>
        ELSE r[f]]

\* lines 81-87 on one row
CoerceRow(r) ==
    [f \in DOMAIN r |->
        IF f \in {"start_blink", "end_blink", "outer_start", "outer_end",
                  "left_zero"}
        THEN AsInt(r[f])
        ELSE IF f = "right_zero" THEN AsInt(FillNa(r[f], -1))
        ELSE r[f]]

CoerceRows(rows) == [i \in DOMAIN rows |-> CoerceRow(rows[i])]

StoreBack_View(df, s, rows) ==
    LET pos(i) == Cardinality({j \in 1..i : df[j].seg_id = s})
    IN  [i \in DOMAIN df |-> IF df[i].seg_id = s THEN rows[pos(i)] ELSE df[i]]

\* What the column assignments to rows do to the caller's table: nothing,
\* rows being a .copy() of the selection.
StoreBack(df, s, rows) == df

\* raw.get_data(picks=channel) raises when the segment has no such channel
GetDataFails(raw) == channel \notin raw.ch_names

\* FitBlinks(...).dprocess_segment_raw(run_fit) raises
FitFails(raw) == raw.signal = "badfit"

\* fitter.frame_blinks
FrameBlinks(raw, rows, fit) ==
    IF fit /\ raw.signal = "nan" THEN << >> ELSE rows

\* BlinkProperties(...) raises
PropsFails(raw) == raw.signal = "badprop"

\* duration_zero = (right_zero - left_zero) / sampling_rate
DurationZero(r, rate) ==
    IF "right_zero" \notin DOMAIN r THEN NaN
    ELSE IF IsNaN(r.right_zero) \/ IsNaN(r.left_zero) THEN NaN
    ELSE F(r.right_zero[1] - r.left_zero[1], rate)

\* BlinkProperties(signal, frame_blinks, sfreq, params, fitted).df
BlinkPropertiesDf(frame, rate) ==
    [i \in DOMAIN frame |->
        [f \in DOMAIN frame[i] \cup {"duration_zero"} |->
            IF f = "duration_zero" THEN DurationZero(frame[i], rate)
            ELSE frame[i][f]]]

\* props["seg_id"] = seg_id
SetSegId(props, s) == [i \in DOMAIN props |-> [props[i] EXCEPT !.seg_id = s]]

AppendProps_Front(lst, props) == <<props>> \o lst

\* all_props.append(props)
AppendProps(lst, props) == Append(lst, props)

RECURSIVE Concat(_)
\* pd.concat(all_props, ignore_index=True)
Concat(lst) == IF lst = << >> THEN << >> ELSE Head(lst) \o Concat(Tail(lst))

FreshProps_Stale(old) == old

\* all_props = []
FreshProps(old) == << >>

EmptyInput_Never(df) == FALSE

\* blink_df.empty
EmptyInput(df) == Len(df) = 0

RowsEmpty_Never(rows) == FALSE

\* rows.empty
RowsEmpty(rows) == rows = << >>

Raw == segments[seg_id + 1]

Rows == SelectRows(blink_df, seg_id)

\* ------------------------------------------------------------ the actions
Ev(level, what, n) == <<level, what, n>>

\* lines 64-77: entry, the run_fit warning, the empty-table return
Enter ==
    /\ pc = "start"
    /\ LET l1 == Append(log, Ev("INFO", "computing", Len(segments)))
           l2 == IF run_fit THEN Append(l1, Ev("RuntimeWarning", "run_fit", 0))
                 ELSE l1
       IN  IF EmptyInput(blink_df)
           THEN /\ log' = Append(l2, Ev("INFO", "empty", 0))
                /\ result' = << >>
                /\ pc' = "returned"
                /\ UNCHANGED <<sfreq, all_props, seg_id>>
           ELSE /\ log' = l2
                /\ sfreq' = IF segments # << >> THEN segments[1].sfreq ELSE 0
                /\ all_props' = FreshProps(all_props)
                /\ seg_id' = 0
                /\ pc' = "loop"
                /\ UNCHANGED result
    /\ UNCHANGED <<segments, blink_df, run_fit, params, exc, calls, visited,
                   df0, call_no, prev, changed, sent, lvars>>

InLoop == pc = "loop" /\ seg_id < Len(segments)

Raise(e) ==
    /\ pc' = "raised"
    /\ exc' = e
    /\ UNCHANGED <<seg_id, all_props, result, log>>

Continue == seg_id' = seg_id + 1 /\ pc' = "loop" /\ UNCHANGED <<result, exc>>

Frame == UNCHANGED <<segments, run_fit, params, sfreq, df0, call_no, prev,
                     changed, lvars>>

\* lines 80-85: an index column of the segment's rows holds a NaN
IterCoerceError ==
    /\ InLoop
    /\ CoerceFails(Rows)
    /\ Raise("astype")
    /\ visited' = visited + 1
    /\ UNCHANGED <<blink_df, calls, sent>>
    /\ Frame

\* lines 80-89: no candidate row for this position
IterSkipEmpty ==
    /\ InLoop
    /\ ~CoerceFails(Rows)
    /\ RowsEmpty(Rows)
    /\ Continue
    /\ visited' = visited + 1
    /\ blink_df' = StoreBack(blink_df, seg_id, CoerceRows(Rows))
    /\ UNCHANGED <<all_props, log, calls, sent>>
    /\ Frame

Dispatched == InLoop /\ ~CoerceFails(Rows) /\ ~RowsEmpty(Rows)

\* line 91 raises
IterGetDataError ==
    /\ Dispatched
    /\ GetDataFails(Raw)
    /\ Raise("get_data")
    /\ visited' = visited + 1
    /\ calls' = Append(calls, <<"get_data", seg_id>>)
    /\ UNCHANGED sent
    /\ blink_df' = StoreBack(blink_df, seg_id, CoerceRows(Rows))
    /\ Frame

\* lines 93-98: the fit raises, the segment is skipped with a warning
IterFitError ==
    /\ Dispatched
    /\ ~GetDataFails(Raw)
    /\ FitFails(Raw)
    /\ Continue
    /\ visited' = visited + 1
    /\ calls' = calls \o <<<<"get_data", seg_id>>, <<"fit", seg_id>>>>
    /\ sent' = Append(sent, CoerceRows(Rows))
    /\ log' = Append(log, Ev("WARNING", "skipping", seg_id))
    /\ blink_df' = StoreBack(blink_df, seg_id, CoerceRows(Rows))
    /\ UNCHANGED all_props
    /\ Frame

\* lines 100-106 raise: nothing catches it
IterPropsError ==
    /\ Dispatched
    /\ ~GetDataFails(Raw)
    /\ ~FitFails(Raw)
    /\ PropsFails(Raw)
    /\ Raise("BlinkProperties")
    /\ visited' = visited + 1
    /\ calls' = calls \o <<<<"get_data", seg_id>>, <<"fit", seg_id>>,
                           <<"props", seg_id>>>>
    /\ sent' = Append(sent, CoerceRows(Rows))
    /\ blink_df' = StoreBack(blink_df, seg_id, CoerceRows(Rows))
    /\ Frame

\* lines 91-108: the segment's property table is appended
IterAppend ==
    /\ Dispatched
    /\ ~GetDataFails(Raw)
    /\ ~FitFails(Raw)
    /\ ~PropsFails(Raw)
    /\ Continue
    /\ visited' = visited + 1
    /\ calls' = calls \o <<<<"get_data", seg_id>>, <<"fit", seg_id>>,
                           <<"props", seg_id>>>>
    /\ sent' = Append(sent, CoerceRows(Rows))
    /\ all_props' =
          AppendProps(all_props,
              SetSegId(BlinkPropertiesDf(
                           FrameBlinks(Raw, CoerceRows(Rows), run_fit), sfreq),
                       seg_id))
    /\ blink_df' = StoreBack(blink_df, seg_id, CoerceRows(Rows))
    /\ UNCHANGED log
    /\ Frame

\* lines 110-115
Finish ==
    /\ pc = "loop"
    /\ seg_id = Len(segments)
    /\ pc' = "returned"
    /\ IF all_props = << >>
       THEN result' = << >> /\ UNCHANGED log
       ELSE /\ result' = Concat(all_props)
            /\ log' = Append(log, Ev("INFO", "computed", Len(Concat(all_props))))
    /\ UNCHANGED <<segments, blink_df, run_fit, params, seg_id, sfreq,
                   all_props, exc, calls, visited, df0, call_no, prev, changed,
                   sent, lvars>>

OneCall ==
    \/ Enter
    \/ IterCoerceError
    \/ IterSkipEmpty
    \/ IterGetDataError
    \/ IterFitError
    \/ IterPropsError
    \/ IterAppend
    \/ Finish

Next == OneCall

Spec == Init /\ [][Next]_vars

\* ---------------------------------------------------- a repeated call
Done == pc \in {"returned", "raised"}

Restart ==
    /\ Done
    /\ call_no = 1
    /\ call_no' = 2
    /\ prev' = [pc |-> pc, result |-> result, exc |-> exc, log |-> log]
    /\ pc' = "start"
    /\ result' = << >>
    /\ exc' = "none"
    /\ log' = << >>
    /\ calls' = << >>
    /\ sent' = << >>
    /\ visited' = 0
    /\ df0' = blink_df
    /\ UNCHANGED <<blink_df, run_fit, params, seg_id, sfreq, all_props,
                   lvars>>

\* the caller calls again with the arguments of the first call
CallAgain ==
    /\ Restart
    /\ changed' = -1
    /\ UNCHANGED segments

\* the caller calls again after replacing the signal of one segment
CallAgainCorrupted ==
    /\ Restart
    /\ \E k \in 0..(Len(segments) - 1), s \in SignalKinds :
          /\ s # segments[k + 1].signal
          /\ changed' = k
          /\ segments' = [segments EXCEPT ![k + 1].signal = s]

NextTwo == OneCall \/ CallAgain \/ CallAgainCorrupted

InitTwo ==
    /\ segments \in SeqsUpTo(SegmentPool, MaxSegs)
    /\ blink_df \in BlinkTables(CandidatePoolTwo)
    /\ run_fit \in BOOLEAN
    /\ params = Params
    /\ df0 = blink_df
    /\ InitCall
    /\ LinesIdle

SpecTwo == InitTwo /\ [][NextTwo]_vars

\* ============================================================ properties
Positions == 0..(Len(segments) - 1)

\* the candidate row an output row was computed from
InputRow(o) == df0[o.blink_id]

\* segment s reaches the fitter: it has rows, they coerce, its signal is read
Reaches(s) ==
    LET rows == SelectRows(df0, s)
    IN  rows # << >> /\ ~CoerceFails(rows) /\ ~GetDataFails(segments[s + 1])

RowsOf(table, s) == SelectSeq(table, LAMBDA o : o.seg_id = s)

RowsNotOf(table, s) == SelectSeq(table, LAMBDA o : o.seg_id # s)

Warned(s) == \E i \in DOMAIN log : log[i] = Ev("WARNING", "skipping", s)

\* C1: an exception raised while fitting a segment's blinks or while
\* computing their properties never leaves the call: the call returns a
\* table, the segment has no rows in it and a warning was logged for it.
C1_FitOrPropsFailureContained ==
    /\ pc = "raised" => exc \notin {"dprocess_segment_raw", "BlinkProperties"}
    /\ pc = "returned" =>
          \A s \in Positions :
              (Reaches(s) /\ (FitFails(segments[s + 1])
                              \/ PropsFails(segments[s + 1])))
              => RowsOf(result, s) = << >> /\ Warned(s)

\* C2: a failure of a segment's pre-dispatch steps (the integer coercion of
\* its index columns, the extraction of its channel signal) never leaves
\* the call as an exception.
C2_PreDispatchFailureContained ==
    ~(pc = "raised" /\ exc \in {"astype", "get_data"})

\* C3: when the second run differs from the first only in the signal of
\* segment k, the second run returns a table whose rows of the other
\* segments are those of the first run, in the same order.
C3_SegmentIsolation ==
    (call_no = 2 /\ changed >= 0 /\ Done /\ prev.pc = "returned")
    => /\ pc = "returned"
       /\ RowsNotOf(result, changed) = RowsNotOf(prev.result, changed)

\* C4: with an empty blink_df the call returns an empty table at once: no
\* loop iteration is entered, no signal is extracted, nothing is fitted and
\* no properties are computed, whatever segments holds.
C4_EmptyInput ==
    (Done /\ df0 = << >>)
    => /\ pc = "returned"
       /\ result = << >>
       /\ calls = << >>
       /\ visited = 0

C4_Witness ==
    /\ pc = "returned"
    /\ df0 = << >>
    /\ Len(segments) = 2
    /\ segments[1].signal = "badprop"

\* the property table of segment s, from the caller's table
PropertyTable(s) ==
    SetSegId(BlinkPropertiesDf(
                 FrameBlinks(segments[s + 1], CoerceRows(SelectRows(df0, s)),
                             run_fit),
                 segments[1].sfreq),
             s)

\* C5: a returned result holds, for each successfully processed segment and
\* for no other, that segment's property table; segments come in increasing
\* position, the rows of one segment in candidate order; it is empty when
\* no segment was processed successfully.
C5_ResultIsConcatenation ==
    pc = "returned" =>
        LET ok == {s \in Positions :
                      /\ Reaches(s)
                      /\ ~FitFails(segments[s + 1])
                      /\ ~PropsFails(segments[s + 1])}
        IN  /\ \A i \in DOMAIN result : result[i].seg_id \in ok
            /\ \A s \in ok : RowsOf(result, s) = PropertyTable(s)
            /\ \A i, j \in DOMAIN result :
                  i < j =>
                     \/ result[i].seg_id < result[j].seg_id
                     \/ /\ result[i].seg_id = result[j].seg_id
                        /\ result[i].blink_id < result[j].blink_id
            /\ (ok = {} => result = << >>)

C5_Witness ==
    /\ pc = "returned"
    /\ Len(result) = 2
    /\ result[1].seg_id # result[2].seg_id
    /\ result[1].blink_id > result[2].blink_id

RightZeroMissing(r) == "right_zero" \notin DOMAIN r \/ IsNaN(r.right_zero)

\* C6: an output row whose candidate has no right_zero (no such column, or
\* NaN) has duration_zero = NaN.
C6_MissingZeroGivesNaN ==
    pc = "returned" =>
        \A i \in DOMAIN result :
            RightZeroMissing(InputRow(result[i]))
            => IsNaN(result[i].duration_zero)

\* a float that is a number >= 0
NonNegative(d) == ~IsNaN(d) /\ d[2] > 0 /\ d[1] >= 0

BothZerosPresent(r) ==
    ~RightZeroMissing(r) /\ ~IsNaN(r.left_zero)

\* C7 (as stated): start_blink <= end_blink and both zero indices present
\* give duration_zero >= 0.
C7_StartLeqEndGivesNonNegative ==
    pc = "returned" =>
        \A i \in DOMAIN result :
            LET r == InputRow(result[i])
            IN  (BothZerosPresent(r) /\ CellLeq(r.start_blink, r.end_blink))
                => NonNegative(result[i].duration_zero)

\* C7 (amended): start_blink <= end_blink, both zero indices present and
\* left_zero <= right_zero give duration_zero >= 0.
C7_OrderedZerosGiveNonNegative ==
    pc = "returned" =>
        \A i \in DOMAIN result :
            LET r == InputRow(result[i])
            IN  (/\ BothZerosPresent(r)
                 /\ CellLeq(r.start_blink, r.end_blink)
                 /\ CellLeq(r.left_zero, r.right_zero))
                => NonNegative(result[i].duration_zero)

C7_Witness ==
    /\ pc = "returned"
    /\ \E i \in DOMAIN result :
          LET r == InputRow(result[i])
          IN  /\ BothZerosPresent(r)
              /\ r.left_zero = F(3, 2)
              /\ CellLeq(r.left_zero, r.right_zero)
              /\ result[i].duration_zero = F(3, segments[1].sfreq)

\* C9: the caller's blink_df and params are, at every point of the call,
\* what they were when it started.
C9_ArgumentsUnchanged == blink_df = df0 /\ params = Params

C9_Witness ==
    /\ pc = "returned"
    /\ \E i \in DOMAIN result :
          /\ ~("right_zero" \notin DOMAIN InputRow(result[i]))
          /\ IsNaN(InputRow(result[i]).right_zero)
          /\ result[i].right_zero = I(-1)
          /\ blink_df[result[i].blink_id].right_zero = NaN

\* C10: a second call with the arguments of the first ends as the first
\* did: the same table, or the same exception, and the same log.
C10_Idempotent ==
    (call_no = 2 /\ changed = -1 /\ Done)
    => /\ pc = prev.pc
       /\ result = prev.result
       /\ exc = prev.exc
       /\ log = prev.log

C10_Witness ==
    /\ call_no = 2
    /\ changed = -1
    /\ pc = "returned"
    /\ Len(result) = 2
    /\ result = prev.result
    /\ run_fit

\* ================================================ lines_intersection_matlabx
\* Floats here are NaN (<< >>), n/d (<<n, d>>, d > 0) or an infinity
\* (<<1, 0>>, <<-1, 0>>); the arithmetic is numpy's: a division by zero gives
\* an infinity or NaN and a warning, never an exception.
SigLen == 4
MaxAmp == 2

Sgn(n) == IF n > 0 THEN 1 ELSE IF n < 0 THEN -1 ELSE 0

IsInf(a) == Len(a) = 2 /\ a[2] = 0

Abs(n) == IF n < 0 THEN -n ELSE n

RECURSIVE Gcd(_, _)
Gcd(a, b) == IF b = 0 THEN a ELSE Gcd(b, a % b)

\* n/d (d > 0) in lowest terms
Frac(n, d) == LET g == Gcd(Abs(n), d) IN <<n \div g, d \div g>>

FNeg(a) == IF IsNaN(a) THEN NaN ELSE <<-a[1], a[2]>>

FDiv(a, b) ==
    IF IsNaN(a) \/ IsNaN(b) THEN NaN
    ELSE IF IsInf(a) THEN (IF IsInf(b) THEN NaN
                           ELSE <<a[1] * (IF b[1] < 0 THEN -1 ELSE 1), 0>>)
    ELSE IF IsInf(b) THEN <<0, 1>>
    ELSE IF b[1] = 0 THEN (IF a[1] = 0 THEN NaN ELSE <<Sgn(a[1]), 0>>)
    ELSE Frac(a[1] * b[2] * Sgn(b[1]), a[2] * b[1] * Sgn(b[1]))

FSub(a, b) ==
    IF IsNaN(a) \/ IsNaN(b) THEN NaN
    ELSE IF IsInf(a) THEN (IF IsInf(b) /\ a[1] = b[1] THEN NaN ELSE a)
    ELSE IF IsInf(b) THEN FNeg(b)
    ELSE Frac(a[1] * b[2] - b[1] * a[2], a[2] * b[2])

FMul(a, b) ==
    IF IsNaN(a) \/ IsNaN(b) THEN NaN
    ELSE IF IsInf(a) \/ IsInf(b)
         THEN (IF a[1] = 0 \/ b[1] = 0 THEN NaN ELSE <<Sgn(a[1]) * Sgn(b[1]), 0>>)
    ELSE Frac(a[1] * b[1], a[2] * b[2])

FAdd(a, b) == FSub(a, FNeg(b))

RECURSIVE Sum(_)
Sum(q) == IF q = << >> THEN 0 ELSE Head(q) + Sum(Tail(q))

\* signal[x]: the samples at the (zero-based) indices x
Take(sig, x) == [i \in DOMAIN x |-> sig[x[i] + 1]]

Prod(x, y) == [i \in DOMAIN x |-> x[i] * y[i]]

\* n * (sum of squares) - (sum)^2: n^2 times the variance of x
Sxx(x) == Len(x) * Sum(Prod(x, x)) - Sum(x) * Sum(x)

Sxy(x, y) == Len(x) * Sum(Prod(x, y)) - Sum(x) * Sum(y)

FewerThanTwoDistinct(x) == Cardinality({x[i] : i \in DOMAIN x}) < 2

\* polyfitMatlab(x, y, 1): the least-squares line through (x, y), kept here
\* by its slope m and intercept b in raw index space (the code keeps
\* p[0] = m * mu[1] and p[1] in the basis (x - mu[0]) / mu[1]); NaN
\* coefficients when x has fewer than 2 distinct values.
polyfitMatlab(x, y) ==
    IF FewerThanTwoDistinct(x) THEN [m |-> NaN, b |-> NaN]
    ELSE [m |-> Frac(Sxy(x, y), Sxx(x)),
          b |-> Frac(Sum(y) * Sxx(x) - Sxy(x, y) * Sum(x), Len(x) * Sxx(x))]

\* corrMatlab(y, polyvalMatlab(p, x))[0][0][0]: the squared correlation of y
\* with the fitted values, NaN when either has no variance
R2(x, y) ==
    IF FewerThanTwoDistinct(x) \/ Sxy(x, y) = 0 \/ Sxx(y) = 0 THEN NaN
    ELSE Frac(Sxy(x, y) * Sxy(x, y), Sxx(x) * Sxx(y))

FEq(a, b) ==
    /\ ~IsNaN(a) /\ ~IsNaN(b)
    /\ a[1] * b[2] = b[1] * a[2]

\* get_intersection(pLeft, pRight, muLeft, muRight):
\* x* = (b2 - b1) / (m1 - m2), y* = m1 x* + b1, each line's x-intercept
\* -b / m; all NaN for NaN coefficients and for m1 == m2.
get_intersection(l, r) ==
    IF IsNaN(l.m) \/ IsNaN(r.m) \/ FEq(l.m, r.m)
    THEN [x |-> NaN, y |-> NaN, lx |-> NaN, rx |-> NaN]
    ELSE LET xs == FDiv(FSub(r.b, l.b), FSub(l.m, r.m))
         IN  [x |-> xs,
              y |-> FAdd(FMul(l.m, xs), l.b),
              lx |-> FDiv(FNeg(l.b), l.m),
              rx |-> FDiv(FNeg(r.b), r.m)]

\* get_line_intersection_slope: the slope from each x-intercept to the
\* intersection point
get_line_intersection_slope(x, y, lx, rx) ==
    [left |-> FDiv(y, FSub(x, lx)), right |-> FDiv(y, FSub(x, rx))]

lines_intersection_matlabx_Shifted(sig, xR, xL) ==
    LET pLeft == polyfitMatlab(xL, Take(sig, xL))
        pRight == polyfitMatlab(xR, Take(sig, xR))
        at == get_intersection(pLeft, pRight)
        sl == get_line_intersection_slope(at.x, at.y, at.lx, at.rx)
    IN  [leftSlope |-> sl.left, rightSlope |-> sl.right,
         averLeftVelocity |-> pLeft.m, averRightVelocity |-> pRight.m,
         rightR2 |-> R2(xR, Take(sig, xR)), leftR2 |-> R2(xL, Take(sig, xL)),
         xIntersect |-> pLeft.m, yIntersect |-> pRight.m,
         leftXIntercept |-> at.x, rightXIntercept |-> at.y,
         xLineCross_l |-> NaN, yLineCross_l |-> NaN,
         xLineCross_r |-> NaN, yLineCross_r |-> NaN]

\* lines 8-38; averLeftVelocity = pLeft[0] / muLeft[1] is the raw slope
lines_intersection_matlabx(sig, xR, xL) ==
    LET yRight == Take(sig, xR)
        yLeft == Take(sig, xL)
        pLeft == polyfitMatlab(xL, yLeft)
        leftR2 == R2(xL, yLeft)
        pRight == polyfitMatlab(xR, yRight)
        rightR2 == R2(xR, yRight)
        at == get_intersection(pLeft, pRight)
        sl == get_line_intersection_slope(at.x, at.y, at.lx, at.rx)
    IN  [leftSlope |-> sl.left, rightSlope |-> sl.right,
         averLeftVelocity |-> pLeft.m, averRightVelocity |-> pRight.m,
         rightR2 |-> rightR2, leftR2 |-> leftR2,
         xIntersect |-> at.x, yIntersect |-> at.y,
         leftXIntercept |-> at.lx, rightXIntercept |-> at.rx,
         xLineCross_l |-> NaN, yLineCross_l |-> NaN,
         xLineCross_r |-> NaN, yLineCross_r |-> NaN]

\* the windows of contiguous sample indices inside a signal of SigLen samples
Windows ==
    { [i \in 1..w[2] |-> w[1] + i - 1] :
        w \in {v \in (0..(SigLen - 1)) \X (0..SigLen) : v[1] + v[2] <= SigLen} }

InitLines ==
    /\ segments = << >>
    /\ blink_df = << >>
    /\ run_fit = FALSE
    /\ params = Params
    /\ df0 = << >>
    /\ InitCall
    /\ lpc = "ready"
    /\ signal \in [1..SigLen -> 0..MaxAmp]
    /\ xLeft \in Windows
    /\ xRight \in Windows
    /\ out = NoOut

Apply ==
    /\ lpc = "ready"
    /\ out' = lines_intersection_matlabx(signal, xRight, xLeft)
    /\ lpc' = "returned"
    /\ UNCHANGED <<ovars, signal, xLeft, xRight>>

NextLines == Apply

SpecLines == InitLines /\ [][NextLines]_vars

\* the fitted lines have the same raw-space slope
Parallel ==
    /\ ~FewerThanTwoDistinct(xLeft)
    /\ ~FewerThanTwoDistinct(xRight)
    /\ Sxy(xLeft, Take(signal, xLeft)) * Sxx(xRight)
         = Sxy(xRight, Take(signal, xRight)) * Sxx(xLeft)

Degenerate == FewerThanTwoDistinct(xLeft) \/ FewerThanTwoDistinct(xRight)

Returned == lpc = "returned" /\ signal # << >>

Unmatched == {s \in Positions : \A i \in DOMAIN df0 : df0[i].seg_id # s}

\* C11: for a segment whose position is no seg_id of blink_df, the signal is
\* never extracted, neither the fitter nor the property calculator is
\* called, no output row carries its position, no warning names it, and an
\* exception that leaves the call is never raised in its iteration.
C11_UnmatchedSegmentSkipped ==
    \A s \in Unmatched :
        /\ \A i \in DOMAIN calls : calls[i][2] # s
        /\ \A i \in DOMAIN result : result[i].seg_id # s
        /\ \A i \in DOMAIN all_props :
              \A j \in DOMAIN all_props[i] : all_props[i][j].seg_id # s
        /\ ~Warned(s)
        /\ (pc = "raised" => seg_id # s)

\* an unreadable segment without candidates is passed over, the next segment
\* yields a row
C11_Witness ==
    /\ pc = "returned"
    /\ Len(segments) = 2
    /\ 0 \in Unmatched
    /\ segments[1].ch_names = {}
    /\ visited = 2
    /\ Len(result) = 1

\* ------------------------------------------------------------------ C12
\* the cell v holds an integer (an int column's cell)
IsIntCell(v) == Len(v) = 1

\* the integer cell v and the non-NaN cell c are the same number
SameNumber(v, c) == IsIntCell(v) /\ v[1] * Num(c)[2] = Num(c)[1]

\* the integer cell v is the non-NaN cell c cut toward zero
CutTowardZero(v, c) ==
    /\ IsIntCell(v)
    /\ IF Num(c)[1] >= 0
       THEN v[1] * Num(c)[2] <= Num(c)[1] /\ Num(c)[1] < (v[1] + 1) * Num(c)[2]
       ELSE (v[1] - 1) * Num(c)[2] < Num(c)[1] /\ Num(c)[1] <= v[1] * Num(c)[2]

\* the rows handed to the fitter, over all dispatched segments
SentRows == UNION {{sent[i][j] : j \in DOMAIN sent[i]} : i \in DOMAIN sent}

\* how the right_zero of a dispatched row r relates to the caller's row r0
RightZeroAsClaimed(r, r0, Same(_, _)) ==
    IF "right_zero" \in DOMAIN r0
    THEN /\ "right_zero" \in DOMAIN r
         /\ IF IsNaN(r0.right_zero) THEN r.right_zero = I(-1)
            ELSE Same(r.right_zero, r0.right_zero)
    ELSE "right_zero" \notin DOMAIN r

\* C12 (as stated): in every row handed to the fitter the five index columns
\* are integers equal to the values in blink_df; right_zero is the integer
\* equal to the value in blink_df, -1 for a missing one, and is not added
\* when blink_df has no such column.
C12_DispatchedEqualInput ==
    \A r \in SentRows :
        /\ \A k \in DOMAIN IndexColumns :
              SameNumber(r[IndexColumns[k]], InputRow(r)[IndexColumns[k]])
        /\ RightZeroAsClaimed(r, InputRow(r), SameNumber)

\* C12 (amended): the columns are the values of blink_df cut toward zero to
\* an integer, which is the value itself when it is a whole number.
C12_DispatchedTruncatedInput ==
    \A r \in SentRows :
        /\ \A k \in DOMAIN IndexColumns :
              LET c == InputRow(r)[IndexColumns[k]]
              IN  /\ CutTowardZero(r[IndexColumns[k]], c)
                  /\ (Num(c)[1] % Num(c)[2] = 0
                      => SameNumber(r[IndexColumns[k]], c))
        /\ RightZeroAsClaimed(r, InputRow(r), CutTowardZero)

C12_Witness ==
    /\ pc = "returned"
    /\ Len(sent) = 1
    /\ Len(sent[1]) = 2
    /\ \A i \in DOMAIN df0 : "right_zero" \in DOMAIN df0[i]
    /\ InputRow(sent[1][1]).left_zero = F(3, 2)
    /\ sent[1][1].left_zero = I(1)
    /\ sent[1][1].right_zero = I(4)
    /\ IsNaN(InputRow(sent[1][2]).right_zero)
    /\ sent[1][2].right_zero = I(-1)

\* ------------------------------------------------------------------ C13
\* the seg_id values of the caller's table
CandidateSegIds == {df0[i].seg_id : i \in DOMAIN df0}

\* the candidate rows whose seg_id is no position of segments
Unplaced == {i \in DOMAIN df0 : df0[i].seg_id \notin Positions}

\* C13: every output row carries a position of segments that is a seg_id of
\* blink_df and the seg_id of the candidate row it was computed from; a
\* candidate row whose seg_id is no position (negative, or >= len(segments))
\* is in no output row and in no row handed to the fitter, and no warning
\* and no exception comes from it.
C13_MatchedByPosition ==
    /\ \A i \in DOMAIN result :
          /\ result[i].seg_id \in Positions
          /\ result[i].seg_id \in CandidateSegIds
          /\ result[i].blink_id \in DOMAIN df0
          /\ InputRow(result[i]).seg_id = result[i].seg_id
    /\ \A b \in Unplaced :
          /\ \A i \in DOMAIN result : result[i].blink_id # b
          /\ \A r \in SentRows : r.blink_id # b
          /\ ~Warned(df0[b].seg_id)
          /\ \A i \in DOMAIN calls : calls[i][2] # df0[b].seg_id
          /\ (pc = "raised" => seg_id # df0[b].seg_id)

\* one segment; a candidate of seg_id -1 or 1 is left out, the candidate of
\* seg_id 0 gives the one output row
C13_Witness ==
    /\ pc = "returned"
    /\ Len(segments) = 1
    /\ Len(df0) = 2
    /\ df0[1].seg_id \in {-1, 1}
    /\ IsNaN(df0[1].start_blink)
    /\ Len(result) = 1
    /\ result[1].seg_id = 0
    /\ result[1].blink_id = 2
    /\ log = <<Ev("INFO", "computing", 1), Ev("INFO", "computed", 1)>>

====
